---- MODULE Spec2Model ----
(***************************************************************************)
(* Nexis download manager (nexis_downloader.py): the driver main() and the *)
(* NexisDownloader operations it sequences, as a state machine.            *)
(*                                                                         *)
(* A comma-separated configuration string is a sequence of its items, the  *)
(* result of str.split(","); the empty string is <<"">>.  The network, the *)
(* external tools and the metadata service are the environment: each of    *)
(* their answers is chosen with \E where the code receives it.             *)
(***************************************************************************)
EXTENDS Integers, Sequences, FiniteSets, TLC

VARIABLES
    pc,                  \* position of main()
    hf_repos,            \* HF_REPOS_TO_DOWNLOAD
    hf_token,            \* HUGGINGFACE_TOKEN
    civitai_token,       \* CIVITAI_TOKEN
    civitai_lists,       \* CIVITAI_{CHECKPOINTS,LORAS,VAES}_TO_DOWNLOAD, by model_type
    installed,           \* the CLI tools shutil.which finds in PATH
    round,               \* polling rounds of wait_for_network_ready so far
    ready,               \* what wait_for_network_ready returned
    hf_valid,
    civitai_valid,
    batch,               \* the list being processed: "huggingface" or a model_type
    idx,                 \* position of the loop over the non-blank identifiers
    ok,                  \* ok / successful of the running batch
    fail,                \* fail / failed of the running batch
    res,                 \* the (ok, fail) pair each batch returned
    returned,            \* the batches that have returned
    total_downloads,
    total_failures,
    exit_code,
    fs,                  \* downloads_tmp/<model_type>/<filename>: the file's content
    dirs,                \* subdirectories of downloads_tmp created by this run
    marker,              \* whether the completion-marker file exists
    calls,               \* kinds of requests main's own steps have issued so far
    attempts,            \* per batch, the huggingface-cli runs / download_civitai_model calls
    lastCall,            \* the last download_civitai_model call and what it issued
    hf_tree,             \* the repositories whose directory under huggingface/ is non-empty
    io                   \* what the operation under observation received and returned

vars == << pc, hf_repos, hf_token, civitai_token, civitai_lists, installed, round, ready,
           hf_valid, civitai_valid, batch, idx, ok, fail, res, returned,
           total_downloads, total_failures, exit_code, fs, dirs, marker, calls,
           attempts, lastCall, hf_tree, io >>

config == << hf_repos, hf_token, civitai_token, civitai_lists, installed, marker >>

----------------------------------------------------------------------------
(* Bounds *)

\* items (comma-separated fields) over the four configured lists together
MaxTotal == 2

\* polling rounds that fit in the readiness timeout
MaxRounds == 2

----------------------------------------------------------------------------
(* Strings and lists *)

EmptyStr == << "" >>

\* the identifiers a list can name, by the position of the item
HfRepoIds == << "org/a", "org/b", "org/c", "org/d" >>
CivitaiIds == << "101", "102", "103", "104" >>
Token == "tok"

\* str.strip() on the items, tokens and hashes of the model
Strip(s) ==
    CASE s = " " -> ""
      [] s = " H1 " -> "H1"
      [] OTHER -> s

\* [x.strip() for x in s.split(",") if x.strip()]
NonBlank(list) == SelectSeq(list, LAMBDA x : Strip(x) # "")

\* truth value of a Python string
Truthy(list) == list # EmptyStr

Weight(list) == IF list = EmptyStr THEN 0 ELSE Len(list)

\* the configured strings: empty, or up to MaxTotal items, each blank or an
\* identifier
ListStrings(ids) ==
    {EmptyStr} \cup
    UNION { {list \in [1..n -> {" "} \cup {ids[i] : i \in 1..n}] :
                \A i \in 1..n : list[i] \in {" ", ids[i]}} : n \in 1..MaxTotal }

ModelTypes == << "checkpoints", "loras", "vae" >>

Batches == {"huggingface", "checkpoints", "loras", "vae"}

Tools == {"huggingface-cli", "aria2c", "sha256sum"}

----------------------------------------------------------------------------
(* The environment's answers *)

\* a HEAD/GET either raises or returns a status code
Raised == [raised |-> TRUE, status |-> 0]

\* (the session retries 429 and 5xx itself and raises when they persist)
ProbeAnswers == {Raised} \cup [raised : {FALSE}, status : {200, 301, 302, 404}]

TokenAnswers == {Raised} \cup [raised : {FALSE}, status : {200, 204, 401, 403}]

ApiHost == "civitai.com"
StorageHost == "storage.example"

NoUrl == << >>
StorageUrl == << StorageHost, "signed" >>

\* f"https://civitai.com/api/download/models/{model_id}"
ApiDownloadUrl(model_id) == << ApiHost, model_id >>

Host(url) == url[1]

NoName == ""
Names == {"f", "g"}

\* one entry of the "files" array of a model-version response
FileInfos(model_id) ==
    [primary : {FALSE},
     name : Names \cup {NoName},
     downloadUrl : {NoUrl, ApiDownloadUrl(model_id), StorageUrl},
     sha : {"", "H1"}]

\* what session.get + raise_for_status + json() give get_civitai_model_info
Responses(model_id) ==
    [kind : {"exception", "not200", "malformed"}, files : {<< >>}]
    \cup [kind : {"ok"}, files : {<< >>}]
    \cup { [kind |-> "ok", files |-> << f >>] : f \in FileInfos(model_id) }

\* a file of the destination tree, by its content
Contents == {"absent", "empty", "good", "bad"}

Exists(content) == content # "absent"

\* st_size
Size(content) == IF content \in {"absent", "empty"} THEN 0 ELSE 1

\* the digest sha256sum prints for a content
Digest(content) ==
    CASE content = "good" -> "h1"
      [] content = "bad" -> "b2"
      [] OTHER -> "e3b0"

\* str.lower()
Lower(s) ==
    CASE s = "H1" -> "h1"
      [] s = "B2" -> "b2"
      [] s = "E3B0" -> "e3b0"
      [] OTHER -> s

\* str.upper() of a digest
Upper(s) ==
    CASE s = "h1" -> "H1"
      [] s = "b2" -> "B2"
      [] s = "e3b0" -> "E3B0"
      [] OTHER -> s

\* a run of aria2c: its exit status and what it leaves at --dir/--out ("none":
\* it wrote nothing)
AriaRuns ==
    [exit : {0}, content : {"good", "bad", "empty"}]
    \cup [exit : {1, 22}, content : {"none", "bad", "empty"}]

\* the words of aria2c's stderr that the error analysis looks for
Stderrs == {{}, {"403"}, {"404"}, {"timeout"}, {"403", "404"}}

\* a run of sha256sum once _require_tools has found it
ShaRuns == {"ok", "error", "empty_output"}

\* a run of sha256sum in general: it may also be missing, or print its digest
\* in upper case
ShaOutcomes == ShaRuns \cup {"not_found", "uppercase"}

\* the expected_hash arguments of _verify_checksum
ExpectedHashes == {"", " ", "h1", "H1", " H1 ", "b2", "ffff"}

\* the tokens main can read from its environment
TokenStrings == {"", " ", Token}

----------------------------------------------------------------------------
(* NexisDownloader: the pure part of each operation *)

\* (mutant) one of the tools being in PATH is enough
RequireToolsAny(tools, path) == tools \cap path # {}

\* _require_tools: no tool of `tools` is missing from PATH
RequireTools(tools, path) == tools \subseteq path

ReadyStatuses == {200, 301, 302}

\* (mutant) any response counts, whatever its status
ProbeOkAnyStatus(answer) == ~answer.raised

\* one probe of wait_for_network_ready's inner loop
ProbeOk(answer) == ~answer.raised /\ answer.status \in ReadyStatuses

\* all_ready after one polling round over the three test_urls
AllReady(answers) == \A i \in 1..3 : ProbeOk(answers[i])

\* the answers a polling round receives: its inner loop breaks at the first
\* probe that fails
Probed(answers) ==
    IF AllReady(answers)
        THEN answers
        ELSE SubSeq(answers, 1, CHOOSE i \in 1..3 :
                                   /\ ~ProbeOk(answers[i])
                                   /\ \A j \in 1..(i - 1) : ProbeOk(answers[j]))

\* (mutant) a token is valid unless its request raised
TokenValidUnlessRaised(token, answer) ==
    IF token = "" THEN TRUE ELSE ~answer.raised

\* validate_tokens, for one token
TokenValid(token, answer) ==
    IF token = "" THEN TRUE ELSE ~answer.raised /\ answer.status = 200

NoInfo == [found |-> FALSE, filename |-> NoName, download_url |-> NoUrl, hash |-> ""]

\* (mutant) the primary flag is not looked at
PrimaryFileFirst(files) == files[1]

\* the first file flagged primary, else the first file
PrimaryFile(files) ==
    IF \E i \in 1..Len(files) : files[i].primary
        THEN files[CHOOSE i \in 1..Len(files) :
                      /\ files[i].primary
                      /\ \A j \in 1..(i - 1) : ~files[j].primary]
        ELSE files[1]

\* get_civitai_model_info, for the responses it returns from
GetCivitaiModelInfo(resp, model_id) ==
    IF resp.kind # "ok" \/ resp.files = << >>
        THEN NoInfo
        ELSE LET primary_file == PrimaryFile(resp.files)
             IN  [found |-> TRUE,
                  filename |-> primary_file.name,
                  download_url |-> IF primary_file.downloadUrl = NoUrl
                                       THEN ApiDownloadUrl(model_id)
                                       ELSE primary_file.downloadUrl,
                  hash |-> Lower(Strip(primary_file.sha))]

\* the responses on which get_civitai_model_info raises something other than
\* requests.RequestException, which nothing up to main() catches
InfoRaises(resp) == resp.kind = "malformed"

\* not model_info or not model_info.get("filename")
NoMetadata(info) == ~info.found \/ info.filename = NoName

\* (mutant) the size of the existing file is not looked at
AlreadyDownloadedAnySize(content) == Exists(content)

\* (mutant) the destination is not looked at before the download
AlreadyDownloadedNever(content) == FALSE

\* output_file.exists() and output_file.stat().st_size > 0
AlreadyDownloaded(content) == Exists(content) /\ Size(content) > 0

\* the --header arguments of the aria2c command line
AuthHeaders(token) ==
    IF token # "" /\ Strip(token) # "" THEN {"Authorization"} ELSE {}

\* the hosts the aria2c command line sends its --header arguments to
HeaderHosts(headers, url) == IF headers = {} THEN {} ELSE {Host(url)}

\* what is at output_file when aria2c exits
Written(before, run) == IF run.content = "none" THEN before ELSE run.content

\* output_file.unlink(missing_ok=True); the removal of a file this process
\* has just written is taken to succeed
Unlink(content) == "absent"

\* (mutant) the partial file is left where it is
PartialKept(written) == written

\* download_civitai_model after aria2c failed: if output_file.exists() it is
\* unlinked
PartialRemoved(written) == IF Exists(written) THEN Unlink(written) ELSE written

\* the branch the error analysis after a failed aria2c run takes; each branch
\* only logs a hint
Hint(returncode, stderr) ==
    IF returncode = 22 THEN "http"
    ELSE IF "403" \in stderr THEN "forbidden"
    ELSE IF "404" \in stderr THEN "not_found"
    ELSE IF "timeout" \in stderr THEN "network"
    ELSE "none"

\* _verify_checksum gets as far as running sha256sum
ShaInvoked(content, expected_hash) ==
    /\ Exists(content)
    /\ expected_hash # "" /\ Strip(expected_hash) # ""

\* subprocess.run raises CalledProcessError or FileNotFoundError
ShaRaises(sha_run) == sha_run \in {"error", "not_found"}

\* result.stdout.split()
Stdout(content, sha_run) ==
    CASE sha_run = "ok" -> << Digest(content), "path" >>
      [] sha_run = "uppercase" -> << Upper(Digest(content)), "path" >>
      [] OTHER -> << >>

\* (mutant) the expected hash is compared as given
VerifyChecksumAsGiven(content, expected_hash, sha_run) ==
    /\ ShaInvoked(content, expected_hash)
    /\ ~ShaRaises(sha_run)
    /\ Stdout(content, sha_run) # << >>
    /\ Lower(Stdout(content, sha_run)[1]) = expected_hash

\* _verify_checksum: every exception, the IndexError of an empty output
\* included, makes it return False
VerifyChecksum(content, expected_hash, sha_run) ==
    /\ ShaInvoked(content, expected_hash)
    /\ ~ShaRaises(sha_run)
    /\ Stdout(content, sha_run) # << >>
    /\ Lower(Stdout(content, sha_run)[1]) = Lower(Strip(expected_hash))

\* (mutant) the blank items are counted too
SkippedCountItems(list) == Len(list)

\* main's count of a skipped list
SkippedCount(list) == Len(NonBlank(list))

\* (mutant) a supplied token skips the downloads even when it is valid
CivitaiProceedNoToken(valid, token) == token = ""

\* main: civitai_valid or not civitai_token
CivitaiProceed(valid, token) == valid \/ token = ""

\* (mutant) main goes on after a failed readiness gate
GateAbortNever(network_ready) == FALSE

\* (mutant) the test of the gate's result is inverted
GateAbortInverted(network_ready) == network_ready

\* main: wait_for_network_ready returned false
GateAbort(network_ready) == ~network_ready

\* main's exit-code selection
ExitCode(failures, downloads) ==
    IF failures = 0 THEN 0
    ELSE IF failures < downloads THEN 2
    ELSE 1

----------------------------------------------------------------------------
(* The state after main() has read its environment and built the downloader *)

NoCall ==
    [made |-> FALSE, model_type |-> "", filename |-> NoName, hash |-> "",
     before |-> "absent", result |-> FALSE, issued |-> {}, auth |-> {}]

CivitaiTypes == {ModelTypes[i] : i \in 1..Len(ModelTypes)}

\* all four configured lists are the empty string
NoSources ==
    hf_repos = EmptyStr /\ \A t \in CivitaiTypes : civitai_lists[t] = EmptyStr

\* io while no operation is under observation, and when one is about to be
Off == [on |-> FALSE]
On == [on |-> TRUE]

\* the operation under observation leaves what it received and returned in io
Observe(seen) == io' = IF io = Off THEN io ELSE seen

\* the stderr of a failed aria2c run: it selects the hint that is logged and
\* nothing else, so its values are told apart under observation only
StderrsSeen == IF io = Off THEN {{}} ELSE Stderrs

\* io when the metadata responses are under observation too
OnFiles == [on |-> TRUE, files |-> TRUE]

\* an entry of a "files" array of several entries
FlaggedFiles ==
    [primary : BOOLEAN,
     name : Names \cup {NoName},
     downloadUrl : {NoUrl, StorageUrl},
     sha : {"", "H1"}]

\* the metadata responses: get_civitai_model_info returns from a "files" array
\* what it returns from the array of its selected entry alone, so the arrays
\* of several entries are told apart only when they are under observation
ResponsesSeen(model_id) ==
    IF io = OnFiles
        THEN Responses(model_id)
               \cup { [kind |-> "ok", files |-> << f, g >>] :
                          f \in FlaggedFiles, g \in FlaggedFiles }
        ELSE Responses(model_id)

NoResp == [kind |-> "none", files |-> << >>]

\* the download_civitai_model call did not get as far as running aria2c
NoRun ==
    [ran |-> FALSE, exit |-> 0, stderr |-> {}, hint |-> "none",
     resp |-> NoResp, url |-> NoUrl]

\* nothing has run yet
Fresh ==
    /\ round = 0
    /\ ready = FALSE
    /\ hf_valid = TRUE
    /\ civitai_valid = TRUE
    /\ batch = ""
    /\ idx = 0
    /\ ok = 0
    /\ fail = 0
    /\ res = [b \in Batches |-> << 0, 0 >>]
    /\ returned = {}
    /\ total_downloads = 0
    /\ total_failures = 0
    /\ exit_code = -1
    /\ dirs = {}
    /\ calls = {}
    /\ attempts = [b \in Batches |-> 0]
    /\ lastCall = NoCall

EmptyTree == [t \in CivitaiTypes |-> [n \in Names |-> "absent"]]

Start ==
    /\ pc = "gate"
    /\ hf_repos \in ListStrings(HfRepoIds)
    /\ civitai_lists \in [CivitaiTypes -> ListStrings(CivitaiIds)]
    /\ Weight(hf_repos) + Weight(civitai_lists["checkpoints"])
         + Weight(civitai_lists["loras"]) + Weight(civitai_lists["vae"]) <= MaxTotal
    /\ hf_token \in {"", Token}
    /\ civitai_token \in {"", Token}
    /\ installed \in {Tools \ missing : missing \in {{}} \cup {{t} : t \in Tools}}
    /\ fs = EmptyTree
    /\ hf_tree = {}
    /\ Fresh

\* a first run: no completion marker in the filesystem
Init == Start /\ marker = FALSE /\ io = Off

\* a run started with the completion marker left in the filesystem
InitMarked == Start /\ marker = TRUE /\ io = Off

\* wait_for_network_ready on its own, under observation
InitGate ==
    /\ Start
    /\ NoSources
    /\ hf_token = ""
    /\ civitai_token = ""
    /\ installed = Tools
    /\ marker = FALSE
    /\ io = On

\* validate_tokens on its own, under observation
InitTokens ==
    /\ pc = "validate"
    /\ hf_repos = EmptyStr
    /\ civitai_lists = [t \in CivitaiTypes |-> EmptyStr]
    /\ hf_token \in TokenStrings
    /\ civitai_token \in TokenStrings
    /\ installed = Tools
    /\ fs = EmptyTree
    /\ hf_tree = {}
    /\ marker = FALSE
    /\ Fresh
    /\ io = On

\* main at its Hugging Face branch, over a tree an earlier run may have filled
InitHf ==
    /\ pc = "hf"
    /\ hf_repos \in ListStrings(HfRepoIds)
    /\ civitai_lists = [t \in CivitaiTypes |-> EmptyStr]
    /\ hf_token \in {"", Token}
    /\ civitai_token = ""
    /\ installed \in {Tools, Tools \ {"huggingface-cli"}}
    /\ fs = EmptyTree
    /\ hf_tree \in SUBSET {HfRepoIds[i] : i \in 1..MaxTotal}
    /\ marker = FALSE
    /\ round = 0
    /\ ready = TRUE
    /\ hf_valid \in (IF hf_token = "" THEN {TRUE} ELSE BOOLEAN)
    /\ civitai_valid = TRUE
    /\ batch = ""
    /\ idx = 0
    /\ ok = 0
    /\ fail = 0
    /\ res = [b \in Batches |-> << 0, 0 >>]
    /\ returned = {}
    /\ total_downloads = 0
    /\ total_failures = 0
    /\ exit_code = -1
    /\ dirs = {"checkpoints", "loras", "vae", "huggingface"}
    /\ calls = {"probe"} \cup (IF hf_token # "" THEN {"validate_hf"} ELSE {})
    /\ attempts = [b \in Batches |-> 0]
    /\ lastCall = NoCall
    /\ io = Off

\* process_civitai_downloads about to call download_civitai_model for the one
\* checkpoint requested, over a tree an earlier run may have filled
BeforeModelCall ==
    /\ pc = "civ_loop"
    /\ hf_repos = EmptyStr
    /\ civitai_lists = [t \in CivitaiTypes |->
                           IF t = "checkpoints" THEN << CivitaiIds[1] >> ELSE EmptyStr]
    /\ hf_token = ""
    /\ civitai_token \in {"", Token}
    /\ installed \in {Tools \ missing : missing \in {{}} \cup {{t} : t \in Tools}}
    /\ fs \in [CivitaiTypes -> [Names -> Contents]]
    /\ \A t \in CivitaiTypes \ {"checkpoints"} : fs[t] = EmptyTree[t]
    /\ hf_tree = {}
    /\ marker = FALSE
    /\ round = 0
    /\ ready = TRUE
    /\ hf_valid = TRUE
    /\ civitai_valid = TRUE
    /\ batch = "checkpoints"
    /\ idx = 1
    /\ ok = 0
    /\ fail = 0
    /\ res = [b \in Batches |-> << 0, 0 >>]
    /\ returned = {}
    /\ total_downloads = 0
    /\ total_failures = 0
    /\ exit_code = -1
    /\ dirs = {"checkpoints", "loras", "vae", "huggingface"}
    /\ calls = {"probe"} \cup (IF civitai_token # "" THEN {"validate_civitai"} ELSE {})
    /\ attempts = [b \in Batches |-> 0]
    /\ lastCall = NoCall

\* download_civitai_model under observation
InitModel == BeforeModelCall /\ io = On

\* download_civitai_model on an empty tree with its tools present, the metadata
\* responses under observation
InitInfo ==
    /\ BeforeModelCall
    /\ civitai_token = ""
    /\ installed = Tools
    /\ fs = EmptyTree
    /\ io = OnFiles

\* _verify_checksum on its own: a file and an expected hash
InitChecksum ==
    /\ pc = "verify"
    /\ hf_repos = EmptyStr
    /\ civitai_lists = [t \in CivitaiTypes |-> EmptyStr]
    /\ hf_token = ""
    /\ civitai_token = ""
    /\ installed \in {Tools, Tools \ {"sha256sum"}}
    /\ \E content \in Contents, expected_hash \in ExpectedHashes :
          /\ fs = [EmptyTree EXCEPT !["checkpoints"]["f"] = content]
          /\ io = [file |-> content, expected_hash |-> expected_hash,
                   sha_run |-> "pending", result |-> FALSE]
    /\ hf_tree = {}
    /\ marker = FALSE
    /\ Fresh

----------------------------------------------------------------------------
(* main: readiness gate, token validation, directory bootstrap *)

\* one polling round of wait_for_network_ready; main goes on when it returns true
NetworkProbeRound ==
    /\ pc = "gate"
    /\ round < MaxRounds
    /\ \E answers \in [1..3 -> ProbeAnswers] :
          /\ IF AllReady(answers)
               THEN /\ ready' = TRUE
                    /\ pc' = IF GateAbort(TRUE) THEN "done" ELSE "validate"
                    /\ exit_code' = IF GateAbort(TRUE) THEN 1 ELSE exit_code
                    /\ round' = round
               ELSE /\ ready' = ready
                    /\ pc' = pc
                    /\ exit_code' = exit_code
                    /\ round' = round + 1
          /\ Observe([probes |-> Probed(answers)])
    /\ calls' = calls \cup {"probe"}
    /\ UNCHANGED << config, hf_valid, civitai_valid, batch, idx, ok, fail, res,
                    returned, total_downloads, total_failures, fs, dirs,
                    attempts, lastCall, hf_tree >>

\* the timeout of wait_for_network_ready: it returns false and main returns 1
NetworkTimeout ==
    /\ pc = "gate"
    /\ round >= MaxRounds
    /\ ready' = FALSE
    /\ pc' = IF GateAbort(FALSE) THEN "done" ELSE "validate"
    /\ exit_code' = IF GateAbort(FALSE) THEN 1 ELSE exit_code
    /\ UNCHANGED << config, round, hf_valid, civitai_valid, batch, idx, ok, fail,
                    res, returned, total_downloads, total_failures, fs, dirs,
                    calls, attempts, lastCall, hf_tree, io >>

NoRequest == [raised |-> FALSE, status |-> 0]

ValidateTokens ==
    /\ pc = "validate"
    /\ \E hf_answer \in TokenAnswers, civitai_answer \in TokenAnswers :
          /\ hf_valid' = TokenValid(hf_token, hf_answer)
          /\ civitai_valid' = TokenValid(civitai_token, civitai_answer)
          /\ Observe([hf |-> IF hf_token # "" THEN hf_answer ELSE NoRequest,
                      civitai |-> IF civitai_token # ""
                                    THEN civitai_answer ELSE NoRequest])
    /\ calls' = calls \cup (IF hf_token # "" THEN {"validate_hf"} ELSE {})
                      \cup (IF civitai_token # "" THEN {"validate_civitai"} ELSE {})
    /\ pc' = "mkdirs"
    /\ UNCHANGED << config, round, ready, batch, idx, ok, fail, res, returned,
                    total_downloads, total_failures, exit_code, fs, dirs,
                    attempts, lastCall, hf_tree >>

CreateDirectoryStructure ==
    /\ pc = "mkdirs"
    /\ dirs' = dirs \cup {"checkpoints", "loras", "vae", "huggingface"}
    /\ pc' = "hf"
    /\ UNCHANGED << config, round, ready, hf_valid, civitai_valid, batch, idx, ok, fail,
                    res, returned, total_downloads, total_failures, exit_code, fs,
                    calls, attempts, lastCall, hf_tree, io >>

----------------------------------------------------------------------------
(* main: Hugging Face *)

\* main's branch on hf_repos and hf_valid, with download_hf_repos up to its loop
MainHuggingFace ==
    /\ pc = "hf"
    /\ IF Truthy(hf_repos) /\ hf_valid
         THEN IF ~RequireTools({"huggingface-cli"}, installed)
                THEN \* download_hf_repos returns (0, 1)
                     /\ res' = [res EXCEPT !["huggingface"] = << 0, 1 >>]
                     /\ returned' = returned \cup {"huggingface"}
                     /\ total_downloads' = total_downloads + 1
                     /\ total_failures' = total_failures + 1
                     /\ pc' = "civitai"
                     /\ UNCHANGED << batch, idx, ok, fail, dirs >>
                ELSE /\ dirs' = dirs \cup {"huggingface"}
                     /\ batch' = "huggingface"
                     /\ idx' = 1
                     /\ ok' = 0
                     /\ fail' = 0
                     /\ pc' = "hf_loop"
                     /\ UNCHANGED << res, returned, total_downloads, total_failures >>
         ELSE IF Truthy(hf_repos)
                THEN /\ total_failures' = total_failures + SkippedCount(hf_repos)
                     /\ pc' = "civitai"
                     /\ UNCHANGED << batch, idx, ok, fail, res, returned,
                                     total_downloads, dirs >>
                ELSE /\ pc' = "civitai"
                     /\ UNCHANGED << batch, idx, ok, fail, res, returned,
                                     total_downloads, total_failures, dirs >>
    /\ UNCHANGED << config, round, ready, hf_valid, civitai_valid, exit_code, fs, calls,
                    attempts, lastCall, hf_tree, io >>

\* one iteration of download_hf_repos' loop: one run of huggingface-cli, whatever
\* is at --local-dir already; a run that succeeds has filled the directory
DownloadHfRepo ==
    /\ pc = "hf_loop"
    /\ idx <= Len(NonBlank(hf_repos))
    /\ \E succeeded \in BOOLEAN :
          /\ ok' = IF succeeded THEN ok + 1 ELSE ok
          /\ fail' = IF succeeded THEN fail ELSE fail + 1
          /\ hf_tree' = IF succeeded
                          THEN hf_tree \cup {NonBlank(hf_repos)[idx]}
                          ELSE hf_tree
    /\ idx' = idx + 1
    /\ attempts' = [attempts EXCEPT !["huggingface"] = @ + 1]
    /\ UNCHANGED << config, pc, round, ready, hf_valid, civitai_valid, batch, res,
                    returned, total_downloads, total_failures, exit_code, fs,
                    dirs, calls, lastCall, io >>

\* download_hf_repos returns (ok, fail) and main adds it to its totals
HfReposReturn ==
    /\ pc = "hf_loop"
    /\ idx > Len(NonBlank(hf_repos))
    /\ res' = [res EXCEPT !["huggingface"] = << ok, fail >>]
    /\ returned' = returned \cup {"huggingface"}
    /\ total_downloads' = total_downloads + (ok + fail)
    /\ total_failures' = total_failures + fail
    /\ pc' = "civitai"
    /\ UNCHANGED << config, round, ready, hf_valid, civitai_valid, batch, idx, ok, fail,
                    exit_code, fs, dirs, calls, attempts, lastCall, hf_tree, io >>

----------------------------------------------------------------------------
(* main: CivitAI *)

\* process_civitai_downloads enters its loop on this list
Pending(t) == Truthy(civitai_lists[t]) /\ NonBlank(civitai_lists[t]) # << >>

\* the first of main's lists i, i+1, ... whose loop runs; Len(ModelTypes) + 1 if none
NextPending(i) ==
    IF \E j \in i..Len(ModelTypes) : Pending(ModelTypes[j])
        THEN CHOOSE j \in i..Len(ModelTypes) :
                /\ Pending(ModelTypes[j])
                /\ \A k \in i..(j - 1) : ~Pending(ModelTypes[k])
        ELSE Len(ModelTypes) + 1

TypeIndex(t) == CHOOSE i \in 1..Len(ModelTypes) : ModelTypes[i] = t

\* main's CivitAI branch from its i-th process_civitai_downloads call on, the
\* batches before it having returned `pairs`: the lists without identifiers
\* return (0, 0), the first list with identifiers starts its loop, and after
\* the last list main adds the three pairs to its totals
ProcessCivitaiDownloads(i, pairs, last_ok, last_fail) ==
    LET j == NextPending(i)
        ck == pairs["checkpoints"]
        lr == pairs["loras"]
        va == pairs["vae"]
    IN  /\ res' = pairs
        /\ returned' = returned \cup {ModelTypes[k] : k \in 1..(j - 1)}
        /\ IF j <= Len(ModelTypes)
             THEN /\ batch' = ModelTypes[j]
                  /\ idx' = 1
                  /\ ok' = 0
                  /\ fail' = 0
                  /\ pc' = "civ_loop"
                  /\ UNCHANGED << total_downloads, total_failures >>
             ELSE /\ UNCHANGED << batch, idx >>
                  /\ ok' = last_ok
                  /\ fail' = last_fail
                  /\ pc' = "exit"
                  /\ total_downloads' = total_downloads
                        + (ck[1] + ck[2] + lr[1] + lr[2] + va[1] + va[2])
                  /\ total_failures' = total_failures + (ck[2] + lr[2] + va[2])

\* main's branch on civitai_valid and civitai_token
MainCivitai ==
    /\ pc = "civitai"
    /\ IF CivitaiProceed(civitai_valid, civitai_token)
         THEN ProcessCivitaiDownloads(1, res, ok, fail)
         ELSE /\ total_failures' = total_failures
                    + (IF Truthy(civitai_lists["checkpoints"])
                         THEN SkippedCount(civitai_lists["checkpoints"]) ELSE 0)
                    + (IF Truthy(civitai_lists["loras"])
                         THEN SkippedCount(civitai_lists["loras"]) ELSE 0)
                    + (IF Truthy(civitai_lists["vae"])
                         THEN SkippedCount(civitai_lists["vae"]) ELSE 0)
              /\ pc' = "exit"
              /\ UNCHANGED << batch, idx, ok, fail, res, returned, total_downloads >>
    /\ UNCHANGED << config, round, ready, hf_valid, civitai_valid, exit_code, fs, dirs,
                    calls, attempts, lastCall, hf_tree, io >>

\* download_civitai_model returned `result`: the rest of the loop body, and the
\* return of process_civitai_downloads after the last identifier
ModelDone(result, call, files, made_dirs, issued, seen) ==
    LET successful == IF result THEN ok + 1 ELSE ok
        failed == IF result THEN fail ELSE fail + 1
    IN  /\ fs' = files
        /\ Observe(seen)
        /\ dirs' = made_dirs
        /\ attempts' = [attempts EXCEPT ![batch] = @ + 1]
        /\ lastCall' = [call EXCEPT !.made = TRUE, !.model_type = batch,
                                    !.result = result, !.issued = issued]
        /\ UNCHANGED << exit_code, calls >>
        /\ IF idx < Len(NonBlank(civitai_lists[batch]))
             THEN /\ ok' = successful
                  /\ fail' = failed
                  /\ idx' = idx + 1
                  /\ UNCHANGED << pc, batch, res, returned, total_downloads,
                                  total_failures >>
             ELSE ProcessCivitaiDownloads(TypeIndex(batch) + 1,
                                          [res EXCEPT ![batch] = << successful, failed >>],
                                          successful, failed)

\* an exception nothing catches ends main with a traceback and exit status 1
ModelRaised(issued) ==
    /\ pc' = "crashed"
    /\ exit_code' = 1
    /\ attempts' = [attempts EXCEPT ![batch] = @ + 1]
    /\ lastCall' = [NoCall EXCEPT !.made = TRUE, !.model_type = batch,
                                  !.issued = issued]
    /\ Observe(NoRun)
    /\ UNCHANGED << ok, fail, idx, fs, dirs, calls, batch, res, returned,
                    total_downloads, total_failures >>

\* one iteration of process_civitai_downloads' loop: download_civitai_model
\* (model_id is never empty here: the loop runs over the non-blank items)
DownloadCivitaiModel ==
    /\ pc = "civ_loop"
    /\ idx <= Len(NonBlank(civitai_lists[batch]))
    /\ LET model_id == NonBlank(civitai_lists[batch])[idx]
           token == civitai_token
       IN
       IF ~RequireTools({"aria2c", "sha256sum"}, installed)
       THEN ModelDone(FALSE, NoCall, fs, dirs, {}, NoRun)
       ELSE \E resp \in ResponsesSeen(model_id) :
         IF InfoRaises(resp)
         THEN ModelRaised({"metadata"})
         ELSE
         LET model_info == GetCivitaiModelInfo(resp, model_id)
             asked == [NoRun EXCEPT !.resp = resp]
         IN
         IF NoMetadata(model_info)
         THEN ModelDone(FALSE, NoCall, fs, dirs, {"metadata"}, asked)
         ELSE
         LET filename == model_info.filename
             download_url == model_info.download_url
             remote_hash == model_info.hash
             before == fs[batch][filename]
             made == dirs \cup {batch}
             call == [NoCall EXCEPT !.filename = filename, !.hash = remote_hash,
                                    !.before = before]
             put(content) == [fs EXCEPT ![batch][filename] = content]
         IN
         IF AlreadyDownloaded(before)
         THEN ModelDone(TRUE, call, fs, made, {"metadata"}, asked)
         ELSE \E run \in AriaRuns :
           LET written == Written(before, run)
               ran == [call EXCEPT
                         !.auth = HeaderHosts(AuthHeaders(token), download_url)]
               exited == [asked EXCEPT !.ran = TRUE, !.exit = run.exit,
                                       !.url = download_url]
           IN
           IF run.exit = 0
           THEN IF remote_hash # ""
                THEN \E sha_run \in ShaRuns :
                       IF VerifyChecksum(written, remote_hash, sha_run)
                       THEN ModelDone(TRUE, ran, put(written), made,
                                      {"metadata", "aria2c", "sha256sum"}, exited)
                       ELSE ModelDone(FALSE, ran, put(Unlink(written)), made,
                                      {"metadata", "aria2c", "sha256sum"}, exited)
                ELSE ModelDone(TRUE, ran, put(written), made,
                               {"metadata", "aria2c"}, exited)
           ELSE \E stderr \in StderrsSeen :
                  ModelDone(FALSE, ran, put(PartialRemoved(written)), made,
                            {"metadata", "aria2c"},
                            [exited EXCEPT !.stderr = stderr,
                                           !.hint = Hint(run.exit, stderr)])
    /\ UNCHANGED << config, round, ready, hf_valid, civitai_valid, hf_tree >>

\* main's exit-code selection
SelectExitCode ==
    /\ pc = "exit"
    /\ exit_code' = ExitCode(total_failures, total_downloads)
    /\ pc' = "done"
    /\ UNCHANGED << config, round, ready, hf_valid, civitai_valid, batch, idx, ok, fail,
                    res, returned, total_downloads, total_failures, fs, dirs,
                    calls, attempts, lastCall, hf_tree, io >>

\* a call of _verify_checksum(file_path, expected_hash) on its own
VerifyChecksumCall ==
    /\ pc = "verify"
    /\ LET content == fs["checkpoints"]["f"]
           expected_hash == io.expected_hash
       IN  IF ShaInvoked(content, expected_hash)
             THEN \E sha_run \in ShaOutcomes :
                    /\ sha_run = "not_found" <=> ~RequireTools({"sha256sum"}, installed)
                    /\ io' = [io EXCEPT
                                !.sha_run = sha_run,
                                !.result = VerifyChecksum(content, expected_hash, sha_run)]
             ELSE io' = [io EXCEPT
                           !.sha_run = "not_run",
                           !.result = VerifyChecksum(content, expected_hash, "not_run")]
    /\ pc' = "verified"
    /\ UNCHANGED << config, round, ready, hf_valid, civitai_valid, batch, idx, ok, fail,
                    res, returned, total_downloads, total_failures, exit_code, fs,
                    dirs, calls, attempts, lastCall, hf_tree >>

Next ==
    \/ NetworkProbeRound
    \/ NetworkTimeout
    \/ ValidateTokens
    \/ CreateDirectoryStructure
    \/ MainHuggingFace
    \/ DownloadHfRepo
    \/ HfReposReturn
    \/ MainCivitai
    \/ DownloadCivitaiModel
    \/ SelectExitCode

Spec == Init /\ [][Next]_vars

SpecMarked == InitMarked /\ [][Next]_vars

\* wait_for_network_ready, which runs until it returns
NextGate == NetworkProbeRound \/ NetworkTimeout

SpecGate == InitGate /\ [][NextGate]_vars /\ WF_vars(NextGate)

\* validate_tokens
NextTokens == ValidateTokens

SpecTokens == InitTokens /\ [][NextTokens]_vars

\* main's Hugging Face branch with download_hf_repos
NextHf == MainHuggingFace \/ DownloadHfRepo \/ HfReposReturn

SpecHf == InitHf /\ [][NextHf]_vars

\* download_civitai_model
NextModel == DownloadCivitaiModel

SpecModel == InitModel /\ [][NextModel]_vars

SpecInfo == InitInfo /\ [][NextModel]_vars

\* _verify_checksum
NextChecksum == VerifyChecksumCall

SpecChecksum == InitChecksum /\ [][NextChecksum]_vars

----------------------------------------------------------------------------
(* Properties *)

\* the identifiers a configured list asks for: its items that are not blank
Requested(list) == Cardinality({i \in DOMAIN list : list[i] \notin {"", " "}})

RequestedOf(b) ==
    IF b = "huggingface" THEN Requested(hf_repos) ELSE Requested(civitai_lists[b])

RequestedTotal ==
    RequestedOf("huggingface") + RequestedOf("checkpoints")
        + RequestedOf("loras") + RequestedOf("vae")

\* the identifiers whose download succeeded
Succeeded ==
    res["huggingface"][1] + res["checkpoints"][1] + res["loras"][1] + res["vae"][1]

\* main returned from its exit-code selection after the readiness gate passed
Finished == pc = "done" /\ ready

\* C1: a run that passes the readiness gate exits 0 when no identifier failed,
\* 2 when some identifier failed and some succeeded, 1 when none succeeded.
C1_ExitCodeByOutcome ==
    Finished =>
        exit_code = IF Succeeded = RequestedTotal THEN 0
                    ELSE IF Succeeded > 0 THEN 2
                    ELSE 1

\* C2: when wait_for_network_ready returns false, main returns 1 at once: no
\* token validation, no directory, no subprocess and no metadata request.
C2_GateFailureAborts ==
    ~ready =>
        /\ calls \subseteq {"probe"}
        /\ dirs = {}
        /\ \A b \in Batches : attempts[b] = 0
        /\ ~lastCall.made
        /\ pc \in {"gate", "done"}
        /\ pc = "done" => exit_code = 1

C2_Witness ==
    /\ pc = "done"
    /\ ~ready
    /\ round = MaxRounds
    /\ exit_code = 1
    /\ hf_token # ""
    /\ RequestedTotal > 0

\* C3: every batch returns (ok, fail) with ok + fail the number of non-blank
\* identifiers of its list, and main's total count is the number of all
\* configured identifiers.
C3_ProcessedIsOkPlusFail ==
    /\ \A b \in returned : res[b][1] + res[b][2] = RequestedOf(b)
    /\ Finished => total_downloads = RequestedTotal

\* C4: after download_civitai_model has handled an identifier whose SHA-256 is
\* known, no file with another hash is left at its destination, and no such
\* identifier counts as a success.
C4_MismatchDeletedAndFailed ==
    (lastCall.made /\ lastCall.hash # "") =>
        LET file == fs[lastCall.model_type][lastCall.filename]
        IN  Exists(file) => Digest(file) = lastCall.hash

\* C5: the Authorization header with the CivitAI token goes to no host other
\* than the API host.
C5_TokenOnlyToApiHost == lastCall.auth \subseteq {ApiHost}

\* C6: a run started with the completion marker present skips everything (no
\* probe, no token validation, no download) and exits 0.
C6_MarkerSkipsRun ==
    marker =>
        /\ calls = {}
        /\ dirs = {}
        /\ \A b \in Batches : attempts[b] = 0
        /\ pc = "done" => exit_code = 0

\* C7: at the end of a run that passed the readiness gate the completion
\* marker is written if and only if the exit code is 0 or 2.
C7_MarkerIffNotTotalFailure ==
    Finished => (marker <=> exit_code \in {0, 2})

\* C8: a destination file that exists with non-zero size and matches the known
\* hash makes download_civitai_model succeed without running the downloader;
\* a destination file of size zero does not count as downloaded.
C8_ExistingFileSkipsDownload ==
    (lastCall.made /\ lastCall.filename # NoName) =>
        /\ (/\ lastCall.before \in {"good", "bad"}
            /\ lastCall.hash # ""
            /\ Digest(lastCall.before) = lastCall.hash)
               => (lastCall.result /\ "aria2c" \notin lastCall.issued)
        /\ lastCall.before = "empty" => "aria2c" \in lastCall.issued

C8_Witness ==
    /\ lastCall.made
    /\ lastCall.before = "good"
    /\ lastCall.hash = "h1"
    /\ lastCall.result
    /\ lastCall.issued = {"metadata"}
    /\ fs[lastCall.model_type][lastCall.filename] = "good"

\* C9: Hugging-Face repositories requested with a token that failed
\* validation: huggingface-cli runs for none of them, and main adds one
\* failure per non-blank repository identifier.
C9_InvalidHfTokenSkipsRepos ==
    (Truthy(hf_repos) /\ hf_token # "" /\ ~hf_valid) =>
        /\ attempts["huggingface"] = 0
        /\ "huggingface" \notin returned
        /\ pc = "civitai" =>
              (total_failures = Requested(hf_repos) /\ total_downloads = 0)

C9_Witness ==
    /\ pc = "civitai"
    /\ ~hf_valid
    /\ Len(hf_repos) = 2
    /\ Requested(hf_repos) = 1
    /\ total_failures = 1

C11_FailuresIsolated ==
    (pc \in {"done", "crashed"} /\ ready) =>
        /\ (/\ Truthy(hf_repos)
            /\ hf_valid
            /\ RequireTools({"huggingface-cli"}, installed))
               => attempts["huggingface"] = RequestedOf("huggingface")
        /\ CivitaiProceed(civitai_valid, civitai_token)
               => \A t \in CivitaiTypes : attempts[t] = RequestedOf(t)

\* C12: with no source configured the run issues no network call (no readiness
\* probe, no token-validation request) and exits 0.
C12_NoSourcesNoNetwork ==
    NoSources =>
        /\ calls = {}
        /\ pc = "done" => exit_code = 0

\* C13: download_civitai_model on a destination file that exists: with a known
\* hash the file is verified, a match succeeds without download and a mismatch
\* makes the download proceed; with no known hash the file is accepted and the
\* download skipped.
C13_ExistingFileVerified ==
    (lastCall.made /\ lastCall.filename # NoName /\ Size(lastCall.before) > 0) =>
        IF lastCall.hash # "" /\ Digest(lastCall.before) # lastCall.hash
            THEN "aria2c" \in lastCall.issued
            ELSE lastCall.result /\ "aria2c" \notin lastCall.issued

\* C14: download_hf_repos runs huggingface-cli only for a repository whose
\* destination directory is absent or empty; a repository whose directory
\* exists and is non-empty is skipped without running the tool.
C14_PresentRepoSkipped ==
    [][attempts'["huggingface"] # attempts["huggingface"]
          => NonBlank(hf_repos)[idx] \notin hf_tree]_vars

MatchingPairs ==
    { << "good", "h1" >>, << "good", "H1" >>, << "good", " H1 " >>, << "bad", "b2" >> }

\* C16: _verify_checksum returns true exactly when the file exists, the
\* expected hash is not blank, sha256sum succeeds and the first word of its
\* output, lowercased, equals the expected hash trimmed and lowercased; it
\* always returns, and the file is left as it was.
C16_VerifyChecksumIff ==
    /\ [](pc = "verified" =>
            /\ io.result <=> /\ io.file # "absent"
                             /\ io.expected_hash \notin {"", " "}
                             /\ io.sha_run \in {"ok", "uppercase"}
                             /\ << io.file, io.expected_hash >> \in MatchingPairs
            /\ io.sha_run = "not_run"
                  <=> (io.file = "absent" \/ io.expected_hash \in {"", " "})
            /\ fs["checkpoints"]["f"] = io.file)
    /\ [][pc = "verify" => pc' = "verified" /\ fs' = fs]_vars

C16_Witness ==
    /\ pc = "verified"
    /\ io.result
    /\ io.file = "good"
    /\ io.expected_hash = " H1 "
    /\ io.sha_run = "uppercase"

\* a polling round in which all three endpoints answered with 200, 301 or 302
ProbesReady(probes) ==
    /\ Len(probes) = 3
    /\ \A i \in 1..3 : ~probes[i].raised /\ probes[i].status \in {200, 301, 302}

\* C17: wait_for_network_ready terminates; it returns true at the first round
\* in which all three endpoints answer with 200, 301 or 302, a round with a
\* probe that raises or answers otherwise is followed by another round, and it
\* returns false only when the rounds of the timeout are used up.
C17_GateTerminates ==
    /\ <>(pc # "gate")
    /\ [][pc = "gate" =>
            IF pc' = "done"
              THEN round = MaxRounds /\ ~ready' /\ io' = io
              ELSE IF ProbesReady(io'.probes)
                     THEN ready' /\ pc' = "validate" /\ round' = round
                     ELSE ~ready' /\ pc' = "gate" /\ round' = round + 1
       ]_vars
    /\ [](pc = "done" => (~ready /\ round = MaxRounds /\ ~ProbesReady(io.probes)))

C17_Witness ==
    /\ pc = "validate"
    /\ ready
    /\ round = 1
    /\ io.probes[1].status = 302
    /\ io.probes[2].status = 301
    /\ io.probes[3].status = 200

\* C18: validate_tokens sends no request for an absent token and reports it
\* valid; a present token is valid exactly when its request returned 200; a
\* request that raises makes that token invalid, leaves the other token's
\* result alone and does not stop the run.
C18_TokenValidation ==
    /\ [](pc = "mkdirs" =>
            /\ IF hf_token = ""
                 THEN hf_valid /\ io.hf = NoRequest /\ "validate_hf" \notin calls
                 ELSE /\ "validate_hf" \in calls
                      /\ hf_valid <=> (~io.hf.raised /\ io.hf.status = 200)
            /\ IF civitai_token = ""
                 THEN /\ civitai_valid
                      /\ io.civitai = NoRequest
                      /\ "validate_civitai" \notin calls
                 ELSE /\ "validate_civitai" \in calls
                      /\ civitai_valid <=> (~io.civitai.raised /\ io.civitai.status = 200))
    /\ [][pc = "validate" => pc' = "mkdirs"]_vars

C18_Witness ==
    /\ pc = "mkdirs"
    /\ hf_token = Token
    /\ io.hf.raised
    /\ ~hf_valid
    /\ civitai_token = " "
    /\ io.civitai.status = 200
    /\ civitai_valid

\* the step of main a state is at
Phase ==
    CASE pc = "gate" -> 0
      [] pc = "validate" -> 1
      [] pc = "mkdirs" -> 2
      [] pc \in {"hf", "hf_loop"} -> 3
      [] pc \in {"civitai", "civ_loop"} -> 4
      [] pc = "exit" -> 5
      [] OTHER -> 6

\* C19: main goes through readiness gate, token validation, directory
\* bootstrap, Hugging Face, checkpoints, LoRAs, VAEs and exit-code selection
\* in this order: nothing is validated, created or downloaded before the gate
\* has passed, nothing is downloaded before validation and bootstrap are over,
\* and main returns its exit code only after every batch it entered returned.
C19_DriverOrder ==
    /\ [][Phase' >= Phase]_vars
    /\ []((calls \ {"probe"} # {} \/ dirs # {}) => (ready /\ Phase >= 1))
    /\ [](dirs # {} => Phase >= 3)
    /\ [](attempts["huggingface"] > 0 => (ready /\ Phase >= 3))
    /\ []((lastCall.made \/ \E t \in CivitaiTypes : attempts[t] > 0) =>
            /\ ready
            /\ Phase >= 4
            /\ (Truthy(hf_repos) /\ hf_valid) => "huggingface" \in returned)
    /\ [](attempts["loras"] > 0 => "checkpoints" \in returned)
    /\ [](attempts["vae"] > 0 => {"checkpoints", "loras"} \subseteq returned)
    /\ [](exit_code # -1 => Phase = 6)
    /\ [](Finished =>
            /\ (Truthy(hf_repos) /\ hf_valid) => "huggingface" \in returned
            /\ CivitaiProceed(civitai_valid, civitai_token) => CivitaiTypes \subseteq returned)

C19_Witness ==
    /\ Finished
    /\ attempts["huggingface"] = 1
    /\ attempts["vae"] = 1
    /\ returned = Batches
    /\ exit_code = 0

\* C20: no exception gets out of get_civitai_model_info, download_civitai_model,
\* download_hf_repos or _verify_checksum: main never ends with a traceback.
C20_NoExceptionEscapes == pc # "crashed"

\* the entry of a "files" array the metadata step is to select
FirstFlagged(files) ==
    LET flagged == {i \in 1..Len(files) : files[i].primary}
    IN  IF flagged = {}
          THEN files[1]
          ELSE files[CHOOSE i \in flagged : \A j \in flagged : i <= j]

\* C21: the metadata step selects the first file flagged primary, else the
\* first listed file, and downloads from its downloadUrl, else from the API
\* download URL built from the id; a request exception, an empty or missing
\* file list or a selected file without a name makes download_civitai_model
\* fail with no file created and the downloader not run.
C21_PrimaryFileSelection ==
    (lastCall.made /\ io.resp.kind \in {"ok", "exception", "not200"}) =>
        IF \/ io.resp.kind # "ok"
           \/ io.resp.files = << >>
           \/ FirstFlagged(io.resp.files).name = NoName
          THEN /\ ~lastCall.result
               /\ lastCall.issued = {"metadata"}
               /\ ~io.ran
               /\ fs = EmptyTree
               /\ res["checkpoints"] = << 0, 1 >>
          ELSE LET file == FirstFlagged(io.resp.files)
               IN  /\ lastCall.filename = file.name
                   /\ io.ran
                   /\ io.url = IF file.downloadUrl = NoUrl
                                 THEN << "civitai.com", "101" >>
                                 ELSE file.downloadUrl

C21_Witness ==
    /\ lastCall.made
    /\ Len(io.resp.files) = 2
    /\ ~io.resp.files[1].primary
    /\ io.resp.files[1].name = "f"
    /\ io.resp.files[2].primary
    /\ io.resp.files[2].downloadUrl = NoUrl
    /\ lastCall.filename = "g"
    /\ io.url = << "civitai.com", "101" >>
    /\ lastCall.result

\* C22: with a required tool missing from PATH nothing is requested or run for
\* the identifiers that need it: download_civitai_model returns failure
\* without fetching metadata, and download_hf_repos returns (0, 1) without
\* creating a directory or running huggingface-cli.
C22_MissingToolNoRequest ==
    /\ []("huggingface-cli" \notin installed =>
            /\ attempts["huggingface"] = 0
            /\ "huggingface" \in returned => res["huggingface"] = << 0, 1 >>)
    /\ [][(pc = "hf" /\ "huggingface-cli" \notin installed) =>
            /\ pc' = "civitai"
            /\ dirs' = dirs
            /\ hf_tree' = hf_tree
            /\ (Truthy(hf_repos) /\ hf_valid) => "huggingface" \in returned'
       ]_vars
    /\ []({"aria2c", "sha256sum"} \ installed # {} =>
            /\ lastCall.made => (~lastCall.result /\ lastCall.issued = {})
            /\ fs = EmptyTree
            /\ \A t \in CivitaiTypes \cap returned : res[t] = << 0, RequestedOf(t) >>)

C22_Witness ==
    /\ pc = "done"
    /\ "sha256sum" \notin installed
    /\ attempts["checkpoints"] = 2
    /\ res["checkpoints"] = << 0, 2 >>
    /\ lastCall.made
    /\ lastCall.issued = {}

====
